---- MODULE Spec2Model ----
(***************************************************************************)
(* RebellBot: the market-data service (streaming connection, subscription  *)
(* set, order-book cache) and the trading engine (background retraining    *)
(* cycle, analyze) of src/RebellBot/services.py, with the configuration    *)
(* of src/RebellBot/config.py.                                             *)
(*                                                                         *)
(* Everything runs on one asyncio event loop.  A coroutine gives the loop  *)
(* up only at an await that really suspends, so each action below is the   *)
(* code between two such points.  Calls into the broker client and the     *)
(* network are the environment: their outcomes are drawn with \E.          *)
(***************************************************************************)
EXTENDS Integers, Sequences, FiniteSets, TLC

\* ---------------------------------------------------------------- bounds
NumFigis == 2
MaxFails == 2
MaxRuns == 2

Figis == 1..NumFigis
None == "None"

VARIABLES
    engine,         \* "none" | "ok" | "crashed": TradingEngine.__init__ outcome
    pcT,            \* position of the _init_ml task
    ml_model,       \* TradingEngine.ml_model: None | "unfitted" | "fitted"
    last_trained,   \* TradingEngine.last_trained: 0 (None) or the run that set it
    runs,           \* training runs finished so far (saturates at MaxRuns)
    trainRaised,    \* whether the last train_model call raised to its caller
    pcS,            \* position of the start_streaming task
    ws,             \* MarketDataService.ws: None | "conn" (the last connection object)
    connOpen,       \* whether the connection object ws refers to is open
    subscriptions,  \* MarketDataService.subscriptions
    sent,           \* subscribe messages written on the current connection, per figi
    todo,           \* elements the set iterator of _resubscribe has not yielded yet
    iterSize,       \* size of subscriptions when that iterator was created
    failures,       \* failed connection attempts since a connection was last lost
                    \* (saturates at MaxFails)
    orderbooks,     \* MarketDataService.orderbooks
    lastSub,        \* the last subscribe call and what it did
    last,           \* the last analyze call and what it returned
    sessState,      \* FSM state of the chat session: None | AWAIT_TICKER | AWAIT_MODE
    sessData,       \* FSM data of the chat session: a dict, here a set of <<key, value>>
    selected,       \* the mode chosen in process_mode since the last analysis, or None
    lastMsg,        \* the last message a handler took and what the handler did
    lastTop         \* the last get_top_instruments call and what it returned

streamVars == <<pcS, ws, connOpen, subscriptions, sent, todo, iterSize, failures>>
engineVars == <<engine, pcT, ml_model, last_trained, runs, trainRaised>>
frontVars == <<sessState, sessData, selected, lastMsg, lastTop>>
vars == <<engine, pcT, ml_model, last_trained, runs, trainRaised, pcS, ws, connOpen,
          subscriptions, sent, todo, iterSize, failures, orderbooks, lastSub, last,
          sessState, sessData, selected, lastMsg, lastTop>>

Min(a, b) == IF a < b THEN a ELSE b

\* ------------------------------------------------------------ event loop
\* train_model awaits only coroutines that never suspend (get_instruments and
\* get_historical_candles wrap synchronous client calls) and fit is synchronous:
\* from its first line to its last the run keeps the event loop, and no other
\* coroutine advances meanwhile.
LoopFree == pcT # "training"

\* ------------------------------------------------- MarketDataService.__init__
\* An order-book entry; orderbooks is a dict, here a function on the keys it has.
Snapshot == [bids |-> <<>>, asks |-> <<>>, timestamp |-> "now"]

NoSub == [called |-> FALSE, figi |-> 0, liveAtCall |-> FALSE, added |-> FALSE,
          sentNow |-> FALSE, raised |-> FALSE]
NoCall == [called |-> FALSE]

MarketInit ==
    /\ orderbooks = [f \in {} |-> Snapshot]
    /\ subscriptions = {}
    /\ ws = None
    /\ connOpen = FALSE
    /\ pcS = "idle"
    /\ sent = [f \in Figis |-> 0]
    /\ todo = {}
    /\ iterSize = 0
    /\ failures = 0
    /\ lastSub = NoSub

\* A chat session nobody wrote to yet: aiogram's storage has no state (None) and
\* no data for it.
NoMsg == [handled |-> FALSE, handler |-> None, kind |-> None, before |-> None,
          analyzed |-> FALSE, mode |-> None, selected |-> None, replied |-> FALSE]
NoTop == [called |-> FALSE, raised |-> FALSE, dir |-> <<>>, out |-> <<>>]

FrontInit ==
    /\ sessState = None
    /\ sessData = {}
    /\ selected = None
    /\ lastMsg = NoMsg
    /\ lastTop = NoTop

Init ==
    /\ FrontInit
    /\ engine = "none"
    /\ pcT = "none"
    /\ ml_model = None
    /\ last_trained = 0
    /\ runs = 0
    /\ trainRaised = FALSE
    /\ last = NoCall
    /\ MarketInit

\* ----------------------------------------------------- TradingEngine.__init__
\* asyncio.create_task needs a running event loop: with one, the _init_ml task is
\* scheduled; without one (handlers.py builds the engine at import time, before
\* bot.py calls asyncio.run) it raises RuntimeError and no engine exists.
Construct(loopRunning) ==
    /\ engine = "none"
    /\ IF loopRunning
         THEN engine' = "ok" /\ pcT' = "ready"
         ELSE engine' = "crashed" /\ pcT' = "none"
    /\ UNCHANGED <<ml_model, last_trained, runs, trainRaised, streamVars, orderbooks,
                   lastSub, last, frontVars>>

ConstructInLoop == Construct(TRUE)
ConstructAtImport == Construct(FALSE)

\* --------------------------------------------------------- start_streaming
StartStreaming ==
    /\ engine = "ok" /\ LoopFree
    /\ pcS = "idle"
    /\ pcS' = "connect"
    /\ UNCHANGED <<engineVars, ws, connOpen, subscriptions, sent, todo, iterSize,
                   failures, orderbooks, lastSub, last, frontVars>>

\* except Exception (lines 45-47): leaving the async with block closes the
\* connection, the error is logged and the task sleeps reconnect_timeout.  self.ws
\* keeps referring to the closed connection object.
StreamFailGivesUp ==
    /\ pcS' = "stopped"
    /\ connOpen' = FALSE

StreamFail ==
    /\ pcS' = "backoff"
    /\ connOpen' = FALSE

\* websockets.connect raised (handshake failure, refused, timeout).
ConnectFail ==
    /\ engine = "ok" /\ LoopFree
    /\ pcS = "connect"
    /\ StreamFail
    /\ failures' = Min(failures + 1, MaxFails)
    /\ UNCHANGED <<engineVars, ws, subscriptions, sent, todo, iterSize, orderbooks,
                   lastSub, last, frontVars>>

\* The connection is up: self.ws = ws, then _resubscribe creates the iterator of
\* the subscription set and, if the set is not empty, sends for its first element
\* and waits in that send.
ConnectOk ==
    /\ engine = "ok" /\ LoopFree
    /\ pcS = "connect"
    /\ ws' = "conn"
    /\ connOpen' = TRUE
    /\ UNCHANGED failures
    /\ iterSize' = Cardinality(subscriptions)
    /\ IF subscriptions = {}
         THEN /\ pcS' = "stream"
              /\ todo' = {}
              /\ sent' = [f \in Figis |-> 0]
         ELSE \E f \in subscriptions :
              /\ pcS' = "resub"
              /\ todo' = subscriptions \ {f}
              /\ sent' = [g \in Figis |-> IF g = f THEN 1 ELSE 0]
    /\ UNCHANGED <<engineVars, subscriptions, orderbooks, lastSub, last, frontVars>>

\* The set iterator's next(): RuntimeError when the set changed size since the
\* iterator was created, else the next element, else exhaustion.
IterBroken == Cardinality(subscriptions) # iterSize

\* _resubscribe resumes from a send: the loop asks the iterator for the next
\* element and sends for it; a send on a closed connection raises.
ResubNext ==
    /\ engine = "ok" /\ LoopFree
    /\ pcS = "resub"
    /\ IF IterBroken
         THEN StreamFail /\ UNCHANGED <<todo, sent>>
         ELSE IF todo = {}
           THEN pcS' = "stream" /\ UNCHANGED <<connOpen, todo, sent>>
           ELSE IF ~connOpen
             THEN StreamFail /\ UNCHANGED <<todo, sent>>
             ELSE \E f \in todo :
                  /\ todo' = todo \ {f}
                  /\ sent' = [sent EXCEPT ![f] = @ + 1]
                  /\ UNCHANGED <<pcS, connOpen>>
    /\ failures' = IF pcS' = "backoff" THEN 0 ELSE failures
    /\ UNCHANGED <<engineVars, ws, subscriptions, iterSize, orderbooks, lastSub, last, frontVars>>

\* The peer or the network ends the connection; the tasks notice at their next
\* read or send.
Drop ==
    /\ connOpen
    /\ connOpen' = FALSE
    /\ UNCHANGED <<engineVars, pcS, ws, subscriptions, sent, todo, iterSize, failures,
                   orderbooks, lastSub, last, frontVars>>

\* _stream_handler on a closed connection: a clean close ends the async for, the
\* with block and the loop body, and the while loop connects again at once; a
\* close with an error raises ConnectionClosedError into the except clause.
StreamClosedClean ==
    /\ engine = "ok" /\ LoopFree
    /\ pcS = "stream" /\ ~connOpen
    /\ pcS' = "connect"
    /\ failures' = 0
    /\ UNCHANGED <<engineVars, ws, connOpen, subscriptions, sent, todo, iterSize,
                   orderbooks, lastSub, last, frontVars>>

StreamClosedError ==
    /\ engine = "ok" /\ LoopFree
    /\ pcS = "stream" /\ ~connOpen
    /\ StreamFail
    /\ failures' = 0
    /\ UNCHANGED <<engineVars, ws, subscriptions, sent, todo, iterSize, orderbooks,
                   lastSub, last, frontVars>>

\* _process_orderbook: under the lock (never contended: this is its only user and
\* the body has no await) the instrument's entry is replaced as a whole.  The
\* levels of a decoded message are dicts, so l.price raises AttributeError for any
\* level: only a message with no bids and no asks is stored.
process_orderbook(books, figi) ==
    [f \in DOMAIN books \cup {figi} |-> IF f = figi THEN Snapshot ELSE books[f]]

\* One received message: kind "book" is an orderbook event without levels,
\* "levels" one with levels, "other" another event, "bad" one that json.loads or
\* data["event"] rejects.
MsgKinds == {"book", "levels", "other", "bad"}

StreamRecv(kind, figi) ==
    /\ engine = "ok" /\ LoopFree
    /\ pcS = "stream" /\ connOpen
    /\ CASE kind = "book" ->
              /\ orderbooks' = process_orderbook(orderbooks, figi)
              /\ UNCHANGED <<pcS, connOpen>>
         [] kind = "other" ->
              UNCHANGED <<orderbooks, pcS, connOpen>>
         [] OTHER ->
              StreamFail /\ UNCHANGED orderbooks
    /\ failures' = IF pcS' = "backoff" THEN 0 ELSE failures
    /\ UNCHANGED <<engineVars, ws, subscriptions, sent, todo, iterSize, lastSub, last, frontVars>>

\* await asyncio.sleep(reconnect_timeout) returns and the while loop starts over.
BackoffWake ==
    /\ engine = "ok" /\ LoopFree
    /\ pcS = "backoff"
    /\ pcS' = "connect"
    /\ UNCHANGED <<engineVars, ws, connOpen, subscriptions, sent, todo, iterSize,
                   failures, orderbooks, lastSub, last, frontVars>>

\* The task is cancelled: CancelledError is no Exception, so the except clause
\* lets it through and the task ends (closing the connection on the way out).
CancelStreaming ==
    /\ engine = "ok" /\ LoopFree
    /\ pcS \in {"connect", "resub", "stream", "backoff"}
    /\ pcS' = "cancelled"
    /\ connOpen' = FALSE
    /\ UNCHANGED <<engineVars, ws, subscriptions, sent, todo, iterSize, failures,
                   orderbooks, lastSub, last, frontVars>>

\* --------------------------------------------------------------- subscribe
\* subscribe(figi): a figi already in the set is a no-op; a new one is added and,
\* when self.ws is set, sent on it.  self.ws is never reset, so after a lost
\* connection it is the closed connection object and the send raises
\* ConnectionClosed to the caller of subscribe.
subscribe_always_sends(figi) ==
    /\ subscriptions' = subscriptions \cup {figi}
    /\ IF ws # None /\ connOpen
         THEN /\ sent' = [sent EXCEPT ![figi] = @ + 1]
              /\ lastSub' = [called |-> TRUE, figi |-> figi, liveAtCall |-> connOpen,
                             added |-> TRUE, sentNow |-> TRUE, raised |-> FALSE]
         ELSE /\ sent' = sent
              /\ lastSub' = [called |-> TRUE, figi |-> figi, liveAtCall |-> connOpen,
                             added |-> TRUE, sentNow |-> FALSE, raised |-> ws # None]

subscribe(figi) ==
    IF figi \in subscriptions
      THEN /\ UNCHANGED <<subscriptions, sent>>
           /\ lastSub' = [called |-> TRUE, figi |-> figi, liveAtCall |-> connOpen,
                          added |-> FALSE, sentNow |-> FALSE, raised |-> FALSE]
      ELSE /\ subscriptions' = subscriptions \cup {figi}
           /\ IF ws = None
                THEN /\ sent' = sent
                     /\ lastSub' = [called |-> TRUE, figi |-> figi,
                                    liveAtCall |-> connOpen, added |-> TRUE,
                                    sentNow |-> FALSE, raised |-> FALSE]
                ELSE IF connOpen
                  THEN /\ sent' = [sent EXCEPT ![figi] = @ + 1]
                       /\ lastSub' = [called |-> TRUE, figi |-> figi,
                                      liveAtCall |-> TRUE, added |-> TRUE,
                                      sentNow |-> TRUE, raised |-> FALSE]
                  ELSE /\ sent' = sent
                       /\ lastSub' = [called |-> TRUE, figi |-> figi,
                                      liveAtCall |-> FALSE, added |-> TRUE,
                                      sentNow |-> FALSE, raised |-> TRUE]

Subscribe(figi) ==
    /\ engine = "ok" /\ LoopFree
    /\ subscribe(figi)
    /\ UNCHANGED <<engineVars, pcS, ws, connOpen, todo, iterSize, failures, orderbooks,
                   last, frontVars>>

\* ------------------------------------------------------------ train_model
\* Line 128 is `await self.market.get_instruments()[:5]`: the subscript binds
\* tighter than await, so the coroutine object is sliced before it is awaited and
\* TypeError is raised, in every run.
SliceOfCoroutineRaises == TRUE

\* What the broker and the library would do in a run that got that far: everything
\* works ("ok"), or the named step raises.
TrainEnvs == {"ok", "instruments", "candles", "prepare", "fit"}

\* train_model: the whole body is inside try / except Exception, which logs and
\* returns.  The new classifier is assigned to self.ml_model (line 144) before
\* fit is called on it (line 147); last_trained is set after fit.
train_model_unguarded(m, lt, now, env) ==
    IF SliceOfCoroutineRaises
      THEN [ml_model |-> m, last_trained |-> lt, raised |-> TRUE]
      ELSE IF env \in {"instruments", "candles", "prepare"}
        THEN [ml_model |-> m, last_trained |-> lt, raised |-> TRUE]
        ELSE IF env = "fit"
          THEN [ml_model |-> "unfitted", last_trained |-> lt, raised |-> TRUE]
          ELSE [ml_model |-> "fitted", last_trained |-> now, raised |-> FALSE]

train_model(m, lt, now, env) ==
    IF SliceOfCoroutineRaises
      THEN [ml_model |-> m, last_trained |-> lt, raised |-> FALSE]
      ELSE IF env \in {"instruments", "candles", "prepare"}
        THEN [ml_model |-> m, last_trained |-> lt, raised |-> FALSE]
        ELSE IF env = "fit"
          THEN [ml_model |-> "unfitted", last_trained |-> lt, raised |-> FALSE]
          ELSE [ml_model |-> "fitted", last_trained |-> now, raised |-> FALSE]

\* _init_ml: train once at once, then sleep retrain_hours and train, forever.
FirstTrain ==
    /\ pcT = "ready"
    /\ pcT' = "training"
    /\ UNCHANGED <<engine, ml_model, last_trained, runs, trainRaised, streamVars,
                   orderbooks, lastSub, last, frontVars>>

Retrain ==
    /\ pcT = "sleep"
    /\ pcT' = "training"
    /\ UNCHANGED <<engine, ml_model, last_trained, runs, trainRaised, streamVars,
                   orderbooks, lastSub, last, frontVars>>

\* The run ends.  An exception that left train_model would end the _init_ml task.
TrainEnd(env) ==
    /\ pcT = "training"
    /\ LET r == train_model(ml_model, last_trained, Min(runs + 1, MaxRuns), env) IN
         /\ ml_model' = r.ml_model
         /\ last_trained' = r.last_trained
         /\ trainRaised' = r.raised
         /\ pcT' = IF r.raised THEN "dead" ELSE "sleep"
    /\ runs' = Min(runs + 1, MaxRuns)
    /\ UNCHANGED <<engine, streamVars, orderbooks, lastSub, last, frontVars>>

TrainNext ==
    \/ FirstTrain
    \/ Retrain
    \/ \E env \in TrainEnvs : TrainEnd(env)

\* ------------------------------------------------------------------ analyze
\* Ticker texts are sequences of letters; str.upper maps each letter.
Letters == {"s", "S", "b", "B", "z", "Z"}
UpperOf == [c \in Letters |->
              CASE c = "s" -> "S" [] c = "b" -> "B" [] c = "z" -> "Z" [] OTHER -> c]
upper(t) == [i \in DOMAIN t |-> UpperOf[t[i]]]

\* Tickers a caller asks for, and tickers the broker's directory may list.
AskedTickers == {<<"s", "b">>, <<"S", "B">>, <<"Z", "Z">>}
ListedTickers == {<<"S", "B">>, <<"S", "b">>}
Modes == {"short_term", "long_term"}

\* Config.STRATEGY (config.py 30-43) has the one profile short_term, with
\* candles_needed and no days / min_candles / ema keys; analyze reads
\* Config.STRATEGY_PARAMS, which Config does not define: AttributeError.
candles_needed == 72
StrategyParamsDefined == FALSE
Profiles == {"short_term"}

\* Config.RISK_MANAGEMENT (config.py 45-49) has no stop_loss_multiplier.
RiskMultipliersDefined == FALSE

\* What the broker answers during one call: the directory (unless the call
\* fails), the number of candles (unless that call fails), and the label the
\* classifier would predict.
AnalyzeEnvs ==
    {e \in [dirOk : BOOLEAN, dir : SUBSET ListedTickers, candlesOk : BOOLEAN,
            candles : {0, 3, candles_needed}, label : {0, 1}] :
        /\ ~e.dirOk => e.dir = {}
        /\ ~e.candlesOk => e.candles = 0}

Err(kind, fetched, indicators, consulted) ==
    [result |-> [error |-> kind], fetched |-> fetched, indicators |-> indicators,
     consulted |-> consulted]

\* next(i for i in instruments if i["ticker"] == ticker.upper())
resolves(t, dir) == \E i \in dir : i = upper(t)

\* analyze, top to bottom; every exception ends in {"error": str(e)}.
analyze(t, mode, e, m) ==
    IF ~e.dirOk THEN Err("Upstream", FALSE, FALSE, FALSE)
    ELSE IF ~resolves(t, e.dir) THEN Err("StopIteration", FALSE, FALSE, FALSE)
    ELSE IF ~StrategyParamsDefined THEN Err("AttributeError", FALSE, FALSE, FALSE)
    ELSE IF mode \notin Profiles THEN Err("KeyError", FALSE, FALSE, FALSE)
    ELSE IF ~e.candlesOk THEN Err("Upstream", TRUE, FALSE, FALSE)
    ELSE IF e.candles < candles_needed THEN Err("InsufficientData", TRUE, FALSE, FALSE)
    ELSE IF ~RiskMultipliersDefined THEN Err("KeyError", TRUE, TRUE, FALSE)
    ELSE IF m = "unfitted" THEN Err("NotFitted", TRUE, TRUE, TRUE)
    ELSE [result |->
            [ticker |-> upper(t),
             decision |-> IF m = None THEN "Hold"
                          ELSE IF e.label = 1 THEN "Buy" ELSE "Sell",
             confidence |-> IF m = None THEN 0 ELSE 100 * e.label,
             price |-> "close", stop_loss |-> "close - atr * k",
             take_profit |-> "close + atr * k", timestamp |-> "now"],
          fetched |-> TRUE, indicators |-> TRUE, consulted |-> m # None]

\* One analyze call: it has no await that suspends, so it is one step.
AnalyzeSubscribing(t, mode, e) ==
    /\ engine = "ok" /\ LoopFree
    /\ last' = [called |-> TRUE, ticker |-> t, mode |-> mode, env |-> e,
                model |-> ml_model, out |-> analyze(t, mode, e, ml_model)]
    /\ subscriptions' = subscriptions \cup {NumFigis}
    /\ UNCHANGED <<engineVars, pcS, ws, connOpen, sent, todo, iterSize, failures,
                   orderbooks, lastSub, frontVars>>

Analyze(t, mode, e) ==
    /\ engine = "ok" /\ LoopFree
    /\ last' = [called |-> TRUE, ticker |-> t, mode |-> mode, env |-> e,
                model |-> ml_model, out |-> analyze(t, mode, e, ml_model)]
    /\ UNCHANGED <<engineVars, streamVars, orderbooks, lastSub, frontVars>>

AnalyzeCall == \E t \in AskedTickers, mode \in Modes, e \in AnalyzeEnvs : Analyze(t, mode, e)

\* ------------------------------------------------------ get_top_instruments
MaxDir == 6
top_n == 5

\* The directory get_instruments returns when the broker lists n shares: the
\* list of dicts figi / ticker / name / type, here the share's position.
Directory(n) == [i \in 1..n |-> i]

\* x.get("volume", 0): get_instruments builds no "volume" key.
volume(x) == 0

\* sorted(..., key=volume, reverse=True): stable, equal keys keep their order.
RECURSIVE sorted_desc(_)
sorted_desc(s) ==
    IF s = <<>> THEN <<>>
    ELSE LET init == sorted_desc(SubSeq(s, 1, Len(s) - 1))
             x == s[Len(s)]
             k == Cardinality({i \in 1..Len(init) : volume(init[i]) >= volume(x)})
         IN SubSeq(init, 1, k) \o <<x>> \o SubSeq(init, k + 1, Len(init))

TopEnvs == {e \in [dirOk : BOOLEAN, n : 0..MaxDir] : ~e.dirOk => e.n = 0}

\* get_top_instruments has no try: an error of get_instruments leaves it.
get_top_instruments(e) ==
    IF ~e.dirOk THEN [raised |-> TRUE, out |-> <<>>]
    ELSE LET ordered == sorted_desc(Directory(e.n))
         IN [raised |-> FALSE, out |-> SubSeq(ordered, 1, Min(Len(ordered), top_n))]

\* ---------------------------------------------------------------- handlers
AWAIT_TICKER == "AWAIT_TICKER"
AWAIT_MODE == "AWAIT_MODE"

\* Incoming messages: "/start", the three menu buttons, the two mode buttons,
\* the Back button, any other text (a ticker), and a message without text.
ButtonKinds == {"start", "analyze", "top", "mode", "short", "long", "back"}
Messages ==
    {[kind |-> k, text |-> <<>>] : k \in ButtonKinds \cup {"nontext"}}
        \cup {[kind |-> "text", text |-> t] : t \in AskedTickers}

\* The router tries the handlers in the order they were registered and runs the
\* first whose filters match.
route(msg, st) ==
    IF msg.kind = "start" THEN "cmd_start"
    ELSE IF msg.kind = "analyze" THEN "analyze_instrument"
    ELSE IF msg.kind = "top" THEN "top_instruments"
    ELSE IF msg.kind = "mode" THEN "change_mode"
    ELSE IF st = AWAIT_MODE /\ msg.kind \in {"short", "long"} THEN "process_mode"
    ELSE IF st = AWAIT_TICKER THEN "process_ticker"
    ELSE IF msg.kind = "back" THEN "back_handler"
    ELSE "unhandled"

\* user_data.get("mode", "short_term") and state.update_data(mode=mode).
get_mode(data) ==
    IF \E p \in data : p[1] = "mode"
      THEN (CHOOSE p \in data : p[1] = "mode")[2]
      ELSE "short_term"
update_data(data, mode) == {p \in data : p[1] # "mode"} \cup {<<"mode", mode>>}

Handled(h, msg, analyzed, mode, replied) ==
    [handled |-> TRUE, handler |-> h, kind |-> msg.kind, before |-> sessState,
     analyzed |-> analyzed, mode |-> mode, selected |-> selected, replied |-> replied]

\* state.clear() resets the state to None and the data to {}.  message.answer is
\* a call to Telegram: it succeeds (replyOk) or raises, and a handler that raises
\* stops there.

\* cmd_start: clear, then answer.
CmdStart(msg, replyOk) ==
    /\ engine = "ok" /\ LoopFree
    /\ route(msg, sessState) = "cmd_start"
    /\ sessState' = None
    /\ sessData' = {}
    /\ lastMsg' = Handled("cmd_start", msg, FALSE, None, replyOk)
    /\ UNCHANGED <<engineVars, streamVars, orderbooks, lastSub, last, selected, lastTop>>

\* analyze_instrument: set_state(AWAIT_TICKER), then answer.
AnalyzeInstrument(msg, replyOk) ==
    /\ engine = "ok" /\ LoopFree
    /\ route(msg, sessState) = "analyze_instrument"
    /\ sessState' = AWAIT_TICKER
    /\ lastMsg' = Handled("analyze_instrument", msg, FALSE, None, replyOk)
    /\ UNCHANGED <<engineVars, streamVars, orderbooks, lastSub, last, sessData, selected,
                   lastTop>>

\* top_instruments: the list, or the error text when get_top_instruments raised.
TopInstruments(msg, e, replyOk) ==
    /\ engine = "ok" /\ LoopFree
    /\ route(msg, sessState) = "top_instruments"
    /\ LET r == get_top_instruments(e) IN
         lastTop' = [called |-> TRUE, raised |-> r.raised,
                     dir |-> IF e.dirOk THEN Directory(e.n) ELSE <<>>, out |-> r.out]
    /\ lastMsg' = Handled("top_instruments", msg, FALSE, None, replyOk)
    /\ UNCHANGED <<engineVars, streamVars, orderbooks, lastSub, last, sessState, sessData,
                   selected>>

\* change_mode: set_state(AWAIT_MODE), then answer.
ChangeMode(msg, replyOk) ==
    /\ engine = "ok" /\ LoopFree
    /\ route(msg, sessState) = "change_mode"
    /\ sessState' = AWAIT_MODE
    /\ lastMsg' = Handled("change_mode", msg, FALSE, None, replyOk)
    /\ UNCHANGED <<engineVars, streamVars, orderbooks, lastSub, last, sessData, selected,
                   lastTop>>

\* process_mode: update_data(mode=...), answer, then clear, which drops the data
\* just written together with the state.
ProcessMode(msg, replyOk) ==
    /\ engine = "ok" /\ LoopFree
    /\ route(msg, sessState) = "process_mode"
    /\ LET mode == IF msg.kind = "short" THEN "short_term" ELSE "long_term" IN
         /\ selected' = mode
         /\ IF replyOk
              THEN sessState' = None /\ sessData' = {}
              ELSE sessState' = sessState /\ sessData' = update_data(sessData, mode)
    /\ lastMsg' = Handled("process_mode", msg, FALSE, None, replyOk)
    /\ UNCHANGED <<engineVars, streamVars, orderbooks, lastSub, last, lastTop>>

\* process_ticker.  Back: clear, then answer.  Otherwise the mode is read from
\* the data and, inside try, analyze is called with the upper-cased text (a
\* message without text raises AttributeError there), the reply is formatted from
\* analysis['decision'] ... (KeyError for an error dict) and sent, and the state
\* is cleared; except Exception sends the error text and then clears the state.
ProcessTicker(msg, e, replyOk, errorReplyOk) ==
    /\ engine = "ok" /\ LoopFree
    /\ route(msg, sessState) = "process_ticker"
    /\ IF msg.kind = "back"
         THEN /\ sessState' = None
              /\ sessData' = {}
              /\ lastMsg' = Handled("process_ticker", msg, FALSE, None, replyOk)
              /\ UNCHANGED <<last, selected>>
         ELSE LET mode == get_mode(sessData)
                  called == msg.kind = "text"
                  out == analyze(upper(msg.text), mode, e, ml_model)
                  tryOk == called /\ "decision" \in DOMAIN out.result /\ replyOk
                  cleared == tryOk \/ errorReplyOk
              IN /\ last' = IF called
                              THEN [called |-> TRUE, ticker |-> upper(msg.text),
                                    mode |-> mode, env |-> e, model |-> ml_model,
                                    out |-> out]
                              ELSE last
                 /\ selected' = IF called THEN None ELSE selected
                 /\ sessState' = IF cleared THEN None ELSE sessState
                 /\ sessData' = IF cleared THEN {} ELSE sessData
                 /\ lastMsg' = Handled("process_ticker", msg, called,
                                       IF called THEN mode ELSE None, cleared)
    /\ UNCHANGED <<engineVars, streamVars, orderbooks, lastSub, lastTop>>

\* back_handler: clear, then answer.
BackHandler(msg, replyOk) ==
    /\ engine = "ok" /\ LoopFree
    /\ route(msg, sessState) = "back_handler"
    /\ sessState' = None
    /\ sessData' = {}
    /\ lastMsg' = Handled("back_handler", msg, FALSE, None, replyOk)
    /\ UNCHANGED <<engineVars, streamVars, orderbooks, lastSub, last, selected, lastTop>>

\* What the broker answers to the analyze call of one ticker message: both of
\* its requests fail, or both are answered (the directory lists SB and there are
\* candles_needed candles).
FrontEnvs ==
    {e \in AnalyzeEnvs :
        /\ e.candlesOk = e.dirOk
        /\ e.dir = IF e.dirOk THEN {<<"S", "B">>} ELSE {}
        /\ e.candles = IF e.candlesOk THEN candles_needed ELSE 0
        /\ e.label = 1}

FrontNext ==
    \/ \E msg \in Messages, r \in BOOLEAN : CmdStart(msg, r)
    \/ \E msg \in Messages, r \in BOOLEAN : AnalyzeInstrument(msg, r)
    \/ \E msg \in Messages, e \in TopEnvs, r \in BOOLEAN : TopInstruments(msg, e, r)
    \/ \E msg \in Messages, r \in BOOLEAN : ChangeMode(msg, r)
    \/ \E msg \in Messages, r \in BOOLEAN : ProcessMode(msg, r)
    \/ \E msg \in Messages, e \in FrontEnvs, r1 \in BOOLEAN, r2 \in BOOLEAN :
          ProcessTicker(msg, e, r1, r2)
    \/ \E msg \in Messages, r \in BOOLEAN : BackHandler(msg, r)

\* ------------------------------------------------------------ specifications
StreamNext ==
    \/ StartStreaming
    \/ ConnectFail
    \/ ConnectOk
    \/ ResubNext
    \/ Drop
    \/ StreamClosedClean
    \/ StreamClosedError
    \/ \E kind \in MsgKinds, f \in Figis : StreamRecv(kind, f)
    \/ BackoffWake
    \/ CancelStreaming
    \/ \E f \in Figis : Subscribe(f)

Next ==
    \/ ConstructInLoop
    \/ ConstructAtImport
    \/ TrainNext
    \/ StreamNext
    \/ AnalyzeCall
    \/ FrontNext

Spec == Init /\ [][Next]_vars

\* analyze writes nothing the market-data service reads and the service writes
\* nothing analyze reads; the two halves below share only the event loop (the
\* retraining cycle), and each property is checked on the half it is about.

\* The market-data service with the retraining cycle that shares its event loop.
MarketNext ==
    \/ ConstructInLoop
    \/ ConstructAtImport
    \/ TrainNext
    \/ StreamNext

MarketSpec == Init /\ [][MarketNext]_vars

\* The trading engine: construction, the retraining cycle and analyze calls.
EngineNext ==
    \/ ConstructInLoop
    \/ ConstructAtImport
    \/ TrainNext
    \/ AnalyzeCall

EngineSpec == Init /\ [][EngineNext]_vars

\* The chat front end over the engine: construction and the message handlers.
FrontSpecNext ==
    \/ ConstructInLoop
    \/ ConstructAtImport
    \/ FrontNext

FrontSpec == Init /\ [][FrontSpecNext]_vars

\* Requests against a running market-data service: the stream, subscribe calls
\* and analyze calls whose broker requests are answered, with enough candles and
\* a directory that lists SB or nothing.
RequestEnvs ==
    {e \in AnalyzeEnvs :
        /\ e.dirOk /\ e.candlesOk /\ e.label = 1
        /\ e.candles = candles_needed
        /\ e.dir \in {{}, {<<"S", "B">>}}}

AnalyzeRequest == \E e \in RequestEnvs : Analyze(<<"s", "b">>, "short_term", e)

RequestNext ==
    \/ ConstructInLoop
    \/ StreamNext
    \/ AnalyzeRequest

RequestSpec == Init /\ [][RequestNext]_vars

\* Subscribe calls on a service that is nearly full: the engine was built, the
\* stream has not been started, and all but two of the max_subscriptions
\* (config.py line 25) instruments allowed were subscribed already.
max_subscriptions == 50
CapFigis == 1..(max_subscriptions + 2)

CapacityInit ==
    /\ FrontInit
    /\ orderbooks = [f \in {} |-> Snapshot]
    /\ subscriptions = 1..(max_subscriptions - 2)
    /\ ws = None
    /\ connOpen = FALSE
    /\ pcS = "idle"
    /\ sent = [f \in Figis |-> 0]
    /\ todo = {}
    /\ iterSize = 0
    /\ failures = 0
    /\ lastSub = NoSub
    /\ engine = "ok"
    /\ pcT = "ready"
    /\ ml_model = None
    /\ last_trained = 0
    /\ runs = 0
    /\ trainRaised = FALSE
    /\ last = NoCall

CapacityNext == \E f \in CapFigis : Subscribe(f)

CapacitySpec == CapacityInit /\ [][CapacityNext]_vars

\* Scheduling: a sleeping task whose timer fired is run by the loop (its ready
\* queue is first-in first-out), and a training run, which never waits, ends.
TrainEnds == \E env \in TrainEnvs : TrainEnd(env)

MarketFairSpec == MarketSpec /\ SF_vars(BackoffWake) /\ WF_vars(TrainEnds)

\* =================================================================== claims

\* A step of start_streaming in which an exception reaches the except clause:
\* the connect failed, a send of the resubscription pass or the set iterator
\* raised, the connection closed with an error, or a message could not be decoded
\* or processed.
ConnectionErrorStep ==
    \/ ConnectFail
    \/ ResubNext /\ (IterBroken \/ (todo # {} /\ ~connOpen))
    \/ StreamClosedError
    \/ \E kind \in {"levels", "bad"}, f \in Figis : StreamRecv(kind, f)

\* C1: every connection error in start_streaming ends the current connection and
\* puts the task into the reconnect backoff, and from the backoff a new connection
\* attempt is always made (unless the task is cancelled): no sequence of failures
\* leaves the task in a state from which it never connects again.
C1_ReconnectsAfterEveryError ==
    /\ [][ConnectionErrorStep => (pcS' = "backoff" /\ ~connOpen')]_vars
    /\ (pcS = "backoff") ~> (pcS \in {"connect", "cancelled"})

\* C1 witness: after two failed attempts in a row the task is attempting again.
C1_Witness == pcS = "connect" /\ failures >= 2

\* C2: a failed connection attempt leaves the subscription set as it was, and
\* when the resubscription pass of a new connection completes, exactly one
\* subscribe message has been sent on that connection for each instrument of
\* the subscription set and none for any other instrument.
C2_ResubscribesExactlyOnce ==
    /\ [][ConnectFail => subscriptions' = subscriptions]_vars
    /\ [][(pcS \in {"connect", "resub"} /\ pcS' = "stream") =>
            \A f \in Figis : sent'[f] = IF f \in subscriptions' THEN 1 ELSE 0]_vars

\* C2 witness: a connection made after two failed attempts, the pass completed,
\* one message sent for each of the subscribed instruments.
C2_Witness ==
    /\ pcS = "stream" /\ connOpen /\ failures >= 2
    /\ Cardinality(subscriptions) >= 2
    /\ \A f \in Figis : sent[f] = IF f \in subscriptions THEN 1 ELSE 0

\* C3: subscribe(figi) always leaves figi in the subscription set, sends only on
\* an established connection and, called while no connection is live, sends
\* nothing and raises nothing to its caller.
C3_SubscribeWhileDownIsSilent ==
    lastSub.called =>
        /\ lastSub.figi \in subscriptions
        /\ (lastSub.sentNow => lastSub.liveAtCall)
        /\ (~lastSub.liveAtCall => (~lastSub.sentNow /\ ~lastSub.raised))

\* C4: a training run that fails leaves the active model as it was before the
\* run and raises nothing to its caller; the model changes only in a run whose
\* fit succeeded.
C4_FailedRunKeepsModel ==
    [][\A env \in TrainEnvs : TrainEnd(env) =>
          /\ ~trainRaised' /\ pcT' = "sleep"
          /\ (ml_model' # ml_model =>
                (ml_model' = "fitted" /\ env = "ok" /\ ~SliceOfCoroutineRaises))
          /\ ((env # "ok" \/ SliceOfCoroutineRaises) =>
                (ml_model' = ml_model /\ last_trained' = last_trained))]_vars

\* C4 witness: two runs have failed, nothing was raised and there is still no model.
C4_Witness ==
    runs >= 2 /\ pcT = "sleep" /\ ml_model = None /\ last_trained = 0 /\ ~trainRaised

\* An analyze call for which the broker had everything: the directory lists the
\* ticker in upper case, and enough candles came back.
ServedCall ==
    /\ last.called
    /\ last.env.dirOk /\ resolves(last.ticker, last.env.dir)
    /\ last.env.candlesOk /\ last.env.candles >= candles_needed
    /\ last.mode = "short_term"

IsError(out) == "error" \in DOMAIN out.result

\* C6: an analyze call made before any training run succeeded returns decision
\* Hold with confidence 0, and one made after a run succeeded does not return the
\* Hold fallback.
C6_HoldUntilTrained ==
    ServedCall =>
        /\ ~IsError(last.out)
        /\ (last.model = None =>
              (last.out.result.decision = "Hold" /\ last.out.result.confidence = 0))
        /\ (last.model # None => last.out.result.decision # "Hold")

\* C7: constructing the engine starts the background cycle, whose first step is
\* a training run.
C7_ConstructionStartsCycle ==
    engine # "none" => pcT \in {"ready", "training", "sleep"}

\* C8: while a training run is in progress an analyze call can start and complete.
C8_AnalyzeDuringTraining ==
    (engine = "ok" /\ pcT = "training") => ENABLED AnalyzeCall

\* C9: for a ticker of the directory, when fewer candles than the profile's
\* minimum come back, analyze fails with InsufficientData, computes no indicator
\* and consults no model.
C9_TooFewCandlesIsInsufficientData ==
    (/\ last.called
     /\ last.env.dirOk /\ resolves(last.ticker, last.env.dir)
     /\ last.env.candlesOk /\ last.env.candles < candles_needed) =>
        /\ last.out.result = [error |-> "InsufficientData"]
        /\ ~last.out.indicators /\ ~last.out.consulted

\* Some directory ticker equals t when letter case is ignored.
resolves_ignoring_case(t, dir) == \E i \in dir : upper(i) = upper(t)

\* The not-found outcome: next() found no instrument (StopIteration).
NotFound(out) == out.result = [error |-> "StopIteration"]

\* C10: a requested ticker resolves iff some directory ticker equals it ignoring
\* letter case; if none does, analyze fails as not found and fetches no candles.
C10_ResolvesIgnoringCase ==
    (last.called /\ last.env.dirOk) =>
        /\ (~NotFound(last.out) <=> resolves_ignoring_case(last.ticker, last.env.dir))
        /\ (NotFound(last.out) => ~last.out.fetched)

\* The errors a caller can tell apart as NotFound, InsufficientData and
\* DataUnavailable: no instrument found, too few candles, the broker failed.
TypedErrors == {"StopIteration", "InsufficientData", "Upstream"}

ResultFields ==
    {"ticker", "decision", "confidence", "price", "stop_loss", "take_profit", "timestamp"}

\* C11: every analyze call ends either in a complete result, with all seven
\* fields, or in an error that names one of the three request-path failures and
\* carries no result field.
C11_ResultOrTypedError ==
    last.called =>
        IF IsError(last.out)
          THEN /\ DOMAIN last.out.result = {"error"}
               /\ last.out.result.error \in TypedErrors
          ELSE DOMAIN last.out.result = ResultFields

\* C13: every order-book message replaces the entry of its instrument by the
\* message's snapshot as a whole (bids, asks and timestamp) and leaves the entries
\* of all other instruments as they were.
C13_UpdateReplacesWholeSnapshot ==
    [][\A kind \in {"book", "levels"}, f \in Figis : StreamRecv(kind, f) =>
          /\ DOMAIN orderbooks' = DOMAIN orderbooks \cup {f}
          /\ DOMAIN orderbooks'[f] = {"bids", "asks", "timestamp"}
          /\ (kind = "levels" => orderbooks'[f].bids # <<>>)
          /\ \A g \in DOMAIN orderbooks \ {f} : orderbooks'[g] = orderbooks[g]]_vars

\* C15: every instrument with an order-book entry is in the subscription set.
C15_EntriesOnlyForSubscribed == DOMAIN orderbooks \subseteq subscriptions

\* C20: a subscribe call that added an instrument while the resubscription pass
\* of an open connection was waiting in a send neither aborts the pass nor ends
\* the connection.
C20_SubscribeDuringPassIsHarmless ==
    [][(ResubNext /\ IterBroken /\ connOpen) =>
          (pcS' \in {"resub", "stream"} /\ connOpen')]_vars

\* C14: the subscription set never holds more than max_subscriptions
\* instruments.
C14_AtMostMaxSubscriptions == Cardinality(subscriptions) <= max_subscriptions

\* C16: a top-instruments call raises nothing to its caller and returns at most
\* top_n instruments, each from the directory, in descending order of volume.
C16_TopDegradesToList ==
    lastTop.called =>
        /\ ~lastTop.raised
        /\ Len(lastTop.out) <= top_n
        /\ \A i \in 1..Len(lastTop.out) :
              \E j \in 1..Len(lastTop.dir) : lastTop.out[i] = lastTop.dir[j]
        /\ \A i \in 1..Len(lastTop.out), j \in 1..Len(lastTop.out) :
              i < j => volume(lastTop.out[i]) >= volume(lastTop.out[j])

\* C17: an analyze call changes neither the model, nor its training time, nor the
\* subscription set, nor the order-book cache.
C17_AnalyzeKeepsCoreState ==
    [][AnalyzeRequest =>
          UNCHANGED <<ml_model, last_trained, subscriptions, orderbooks>>]_vars

C17_Witness ==
    /\ last.called
    /\ subscriptions # {}
    /\ DOMAIN orderbooks # {}
    /\ connOpen

\* C18: an analysis the session asks for after a mode was selected in
\* process_mode calls analyze with the selected mode.
C18_SelectedModeIsUsed ==
    (lastMsg.handled /\ lastMsg.analyzed /\ lastMsg.selected # None) =>
        lastMsg.mode = lastMsg.selected

\* C19: the session is in one of its three states, analyze is called only for a
\* message taken in AWAIT_TICKER, and right after a ticker submission, a Back or
\* a /start message the session is idle.
C19_SessionReturnsToIdle ==
    /\ sessState \in {None, AWAIT_TICKER, AWAIT_MODE}
    /\ lastMsg.handled =>
          /\ lastMsg.analyzed => lastMsg.before = AWAIT_TICKER
          /\ (lastMsg.kind \in {"start", "back"}
                \/ (lastMsg.handler = "process_ticker" /\ lastMsg.kind = "text"))
                => sessState = None

====
